---- MODULE Spec2Model ----
(***************************************************************************)
(* Model of test-plugin.py, the LADSPA plugin frequency response tester:   *)
(* PluginTester.run = parse_args, analyze_plugin, print_plugin_info,       *)
(* run_sweep (measure_frequency per ladder frequency), write_results,      *)
(* plot_results.                                                           *)
(*                                                                         *)
(* Floats are fixed-point integers with Scale units per 1.0; every float   *)
(* multiplication and division rounds to the nearest unit, as a double     *)
(* rounds to the nearest representable value.                              *)
(***************************************************************************)
EXTENDS Integers, Sequences, FiniteSets, TLC

\* ------------------------------------------------------------------------
\* Bounds of the model
\* ------------------------------------------------------------------------
MaxIter == 2
MaxOutputs == 2

\* ------------------------------------------------------------------------
\* Fixed-point arithmetic standing for Python floats
\* ------------------------------------------------------------------------
Scale == 10000

Hz(n) == n * Scale

RoundDiv(a, b) == (2 * a + b) \div (2 * b)

FMul(a, b) == (a \div Scale) * b + RoundDiv((a % Scale) * b, Scale)

FDiv(a, b) == RoundDiv(a * Scale, b)

FMax(a, b) == IF a >= b THEN a ELSE b

FMin(a, b) == IF a <= b THEN a ELSE b

\* A --steps value so large that 2 ** (1 / steps) rounds to 1.0.  At the
\* resolution of Scale that is every value from 13863 on; in double
\* precision it is every value from about 1.3 * 10^16 on, such as 10^17.
HugeSteps == 20000

\* 2 ** (1 / steps_per_oct), rounded to the unit; steps_per_oct # 0
Pow2Root(steps) ==
    CASE steps = 1 -> 20000
      [] steps = 2 -> 14142
      [] steps = 3 -> 12599
      [] steps = 4 -> 11892
      [] steps = 12 -> 10595
      [] steps = -1 -> 5000
      [] steps = -2 -> 7071
      [] steps >= 13863 -> 10000

\* math.log10 on the amplitudes the statistics reports of the model carry
Log10(x) ==
    CASE x = 10000 -> 0
      [] x = 7071 -> -1505
      [] x = 5000 -> -3010
      [] x = 1000 -> -10000

Sentinel == -200 * Scale

SineOffset == 30103

rms_to_db(rms) ==
    IF rms <= 0 THEN Sentinel ELSE 20 * Log10(rms) + SineOffset

\* ------------------------------------------------------------------------
\* The textual report of "sox ... stat" and its parsing
\* ------------------------------------------------------------------------
\* A line: does it contain 'RMS', does it contain 'amplitude:', does the
\* regular expression amplitude:\s+(\S+) match, is the token a float, and
\* the value of the token.
Line(rms, amp, m, fl, v) ==
    [hasRMS |-> rms, hasAmp |-> amp, matched |-> m, isFloat |-> fl, val |-> v]

FailLine == Line(FALSE, FALSE, FALSE, FALSE, 0)
MaxAmpLine(v) == Line(FALSE, TRUE, TRUE, TRUE, v)
RmsAmpLine(v) == Line(TRUE, TRUE, TRUE, TRUE, v)
RmsAmpNoValue == Line(TRUE, TRUE, FALSE, FALSE, 0)
RmsAmpGarbage == Line(TRUE, TRUE, TRUE, FALSE, 0)
RmsDeltaLine == Line(TRUE, FALSE, FALSE, FALSE, 0)

ReportNoRms == << FailLine, MaxAmpLine(10000), RmsAmpNoValue, RmsDeltaLine >>
ReportSine == << MaxAmpLine(10000), RmsAmpLine(7071), RmsAmpLine(5000) >>
ReportGarbage == << MaxAmpLine(10000), RmsAmpGarbage, RmsAmpLine(7071) >>

StatReports == { ReportNoRms, ReportSine, ReportGarbage }

\* The loop over the lines of the report: the first line with 'RMS' and
\* 'amplitude:' on which the expression matches decides; float() of its
\* token raises ValueError when the token is no number.
RECURSIVE ParseRms_anyAmplitude(_)
ParseRms_anyAmplitude(output) ==
    IF output = << >> THEN [status |-> "None", val |-> 0]
    ELSE LET line == Head(output) IN
         IF line.hasAmp /\ line.matched
         THEN IF line.isFloat THEN [status |-> "float", val |-> line.val]
              ELSE [status |-> "ValueError", val |-> 0]
         ELSE ParseRms_anyAmplitude(Tail(output))

RECURSIVE ParseRms(_)
ParseRms(output) ==
    IF output = << >> THEN [status |-> "None", val |-> 0]
    ELSE LET line == Head(output) IN
         IF line.hasRMS /\ line.hasAmp /\ line.matched
         THEN IF line.isFloat THEN [status |-> "float", val |-> line.val]
              ELSE [status |-> "ValueError", val |-> 0]
         ELSE ParseRms(Tail(output))

\* ------------------------------------------------------------------------
\* Output formatting of write_results
\* ------------------------------------------------------------------------
\* f"{freq:.3f}": the number of thousandths printed
Fmt3(x) == IF x >= 0 THEN RoundDiv(x, 10) ELSE 0 - RoundDiv(0 - x, 10)

\* f"{db:.2f}": the number of hundredths printed
Fmt2(x) == IF x >= 0 THEN RoundDiv(x, 100) ELSE 0 - RoundDiv(0 - x, 100)

\* ------------------------------------------------------------------------
\* Inputs: command lines and the environment
\* ------------------------------------------------------------------------
Argv(ex, lo, hi, st, du, np) ==
    [plugin_exists |-> ex, f_min |-> lo, f_max |-> hi, steps |-> st,
     duration |-> du, no_plot |-> np]

ArgvChoices ==
    { Argv(FALSE, Hz(5), Hz(50000), 12, Scale, FALSE),
      Argv(TRUE, Hz(200), Hz(400), 1, Scale, TRUE),
      Argv(TRUE, Hz(100), Hz(150), 2, Scale, TRUE),
      Argv(TRUE, Hz(5), Hz(8), 1, 2 * Scale, FALSE),
      Argv(TRUE, Hz(40), Hz(150), 1, Scale \div 2, TRUE),
      Argv(TRUE, Hz(500), Hz(400), 1, Scale, FALSE),
      Argv(TRUE, Hz(100), Hz(400), 0, Scale, FALSE),
      Argv(TRUE, Hz(500), Hz(400), 0, Scale, TRUE),
      Argv(TRUE, Hz(100), Hz(400), -1, Scale, TRUE),
      Argv(TRUE, Hz(100), Hz(400), HugeSteps, Scale, FALSE),
      Argv(TRUE, 0, Hz(400), 1, Scale, FALSE),
      Argv(TRUE, Hz(100), Hz(400), 1, 0, FALSE) }

PluginLabels == { "riaa", "delay_5s" }

\* what output.count('input, audio') can be
InputPortCounts == { 0, 2 }

\* how a subprocess.run without check=True ends: exit status 0, a non-zero
\* exit status, or OSError because the executable cannot be started
ToolOutcomes == { "ok", "nonzero", "OSError" }

VARIABLES
    pc,                \* position in PluginTester.run
    exit_cause,        \* why the program ended early, "" while it has not
    HAS_MATPLOTLIB,
    unlink_fails,      \* the files ("input", "output") whose unlink raises
    f_min, f_max, steps_per_oct, duration, trim_start, trim_len,
    plugin_label, num_inputs, num_outputs, no_plot,
    results, frequency,                 \* locals of run_sweep
    adaptive_duration, m_trim_start, m_trim_len, rms_values,
                                        \* locals of measure_frequency
    tmp_present,       \* temporary files on disk
    tmp_unlinked,      \* temporary files Path(f).unlink() was called on
    calls,             \* the external tools invoked so far
    rows,              \* data lines of the output file
    table_written, plot_saved

vars == << pc, exit_cause, HAS_MATPLOTLIB, unlink_fails, f_min, f_max,
           steps_per_oct, duration, trim_start, trim_len, plugin_label, num_inputs,
           num_outputs, no_plot, results, frequency, adaptive_duration,
           m_trim_start, m_trim_len, rms_values, tmp_present, tmp_unlinked,
           calls, rows, table_written, plot_saved >>

env == << HAS_MATPLOTLIB, unlink_fails >>
config == << f_min, f_max, steps_per_oct, duration, trim_start, trim_len,
             no_plot >>
descriptor == << plugin_label, num_inputs, num_outputs >>
locals == << adaptive_duration, m_trim_start, m_trim_len, rms_values >>
tmpfiles == << tmp_present, tmp_unlinked >>
outputs == << rows, table_written, plot_saved >>

\* the measurement in progress or about to start, counted from 1
CurN == Len(results) + 1

tmp_input == << CurN, "input" >>
tmp_output == << CurN, "output" >>

Call(tool, ch, outcome, args, output) ==
    [n |-> CurN, tool |-> tool, ch |-> ch, outcome |-> outcome,
     args |-> args, output |-> output]

Init ==
    /\ pc = "start"
    /\ exit_cause = ""
    /\ HAS_MATPLOTLIB \in BOOLEAN
    /\ unlink_fails \in SUBSET { "input", "output" }
    /\ f_min = Hz(5)
    /\ f_max = Hz(50000)
    /\ steps_per_oct = 12
    /\ duration = Scale
    /\ trim_start = 2000
    /\ trim_len = 6000
    /\ plugin_label = "None"
    /\ num_inputs = 0
    /\ num_outputs = 0
    /\ no_plot = FALSE
    /\ results = << >>
    /\ frequency = 0
    /\ adaptive_duration = 0
    /\ m_trim_start = 0
    /\ m_trim_len = 0
    /\ rms_values = << >>
    /\ tmp_present = {}
    /\ tmp_unlinked = {}
    /\ calls = << >>
    /\ rows = << >>
    /\ table_written = FALSE
    /\ plot_saved = FALSE

\* ------------------------------------------------------------------------
\* parse_args
\* ------------------------------------------------------------------------
ParseArgs ==
    /\ pc = "start"
    /\ \E args \in ArgvChoices :
         IF ~args.plugin_exists
         THEN /\ pc' = "exited"
              /\ exit_cause' = "parser.error"
              /\ UNCHANGED config
         ELSE /\ pc' = "parsed"
              /\ f_min' = args.f_min
              /\ f_max' = args.f_max
              /\ steps_per_oct' = args.steps
              /\ duration' = args.duration
              /\ no_plot' = args.no_plot
              /\ UNCHANGED << exit_cause, trim_start, trim_len >>
    /\ UNCHANGED << env, descriptor, results, frequency, locals,
                    tmpfiles, calls, outputs >>

\* ------------------------------------------------------------------------
\* analyze_plugin
\* ------------------------------------------------------------------------
AnalyzePlugin ==
    /\ pc = "parsed"
    /\ \/ /\ pc' = "exited"
          /\ exit_cause' = "sys.exit(1)"
          /\ UNCHANGED descriptor
       \/ \E label \in PluginLabels, ins \in InputPortCounts,
             outs \in 0 .. MaxOutputs :
            /\ plugin_label' = label
            /\ num_inputs' = IF ins = 0 THEN 1 ELSE ins
            /\ num_outputs' = IF outs = 0 THEN 1 ELSE outs
            /\ pc' = "analyzed"
            /\ UNCHANGED exit_cause
    /\ UNCHANGED << env, config, results, frequency, locals,
                    tmpfiles, calls, outputs >>

\* ------------------------------------------------------------------------
\* print_plugin_info, then the first lines of run_sweep
\* ------------------------------------------------------------------------
BeginSweep ==
    /\ pc = "analyzed"
    /\ results' = << >>
    /\ frequency' = f_min
    /\ pc' = "loop"
    /\ UNCHANGED << exit_cause, env, config, descriptor, locals,
                    tmpfiles, calls, outputs >>

\* ------------------------------------------------------------------------
\* run_sweep: the while loop
\* ------------------------------------------------------------------------
\* The window of measure_frequency; frequency # 0 and self.duration # 0
AdaptiveDuration_nofloor(freq) == FMin(100 * FDiv(Scale, freq), 10 * Scale)

AdaptiveDuration(freq) ==
    FMin(FMax(100 * FDiv(Scale, freq), Scale), 10 * Scale)

TrimStart(adaptive, dur) == FDiv(FMul(2000, adaptive), dur)

TrimLen(adaptive, dur) == FDiv(FMul(6000, adaptive), dur)

\* the condition of the while loop
LoopCondition_strict == frequency < f_max

LoopCondition == frequency <= f_max

\* while frequency <= self.f_max: call measure_frequency, up to the
\* creation of the temporary files
EnterMeasure ==
    /\ pc = "loop"
    /\ LoopCondition
    /\ Len(results) < MaxIter
    /\ IF frequency = 0 \/ duration = 0
       THEN /\ pc' = "exited"
            /\ exit_cause' = "ZeroDivisionError"
            /\ UNCHANGED locals
       ELSE /\ adaptive_duration' = AdaptiveDuration(frequency)
            /\ m_trim_start' = TrimStart(AdaptiveDuration(frequency), duration)
            /\ m_trim_len' = TrimLen(AdaptiveDuration(frequency), duration)
            /\ rms_values' = << >>
            /\ pc' = "tmp_input"
            /\ UNCHANGED exit_cause
    /\ UNCHANGED << env, config, descriptor, results, frequency,
                    tmpfiles, calls, outputs >>

\* the loop condition is false: return results
ReturnResults ==
    /\ pc = "loop"
    /\ ~LoopCondition
    /\ pc' = "write"
    /\ UNCHANGED << exit_cause, env, config, descriptor, results,
                    frequency, locals, tmpfiles, calls, outputs >>

\* ------------------------------------------------------------------------
\* measure_frequency
\* ------------------------------------------------------------------------
\* tempfile.NamedTemporaryFile(suffix='.wav', delete=False), before the try
CreateTmpInput ==
    /\ pc = "tmp_input"
    /\ \/ /\ tmp_present' = tmp_present \cup { tmp_input }
          /\ pc' = "tmp_output"
          /\ UNCHANGED exit_cause
       \/ /\ pc' = "exited"
          /\ exit_cause' = "OSError:tempfile"
          /\ UNCHANGED tmp_present
    /\ UNCHANGED << env, config, descriptor, results, frequency,
                    locals, tmp_unlinked, calls, outputs >>

CreateTmpOutput ==
    /\ pc = "tmp_output"
    /\ \/ /\ tmp_present' = tmp_present \cup { tmp_output }
          /\ pc' = "generate"
          /\ UNCHANGED exit_cause
       \/ /\ pc' = "exited"
          /\ exit_cause' = "OSError:tempfile"
          /\ UNCHANGED tmp_present
    /\ UNCHANGED << env, config, descriptor, results, frequency,
                    locals, tmp_unlinked, calls, outputs >>

\* the finally clause: unlink both files, ignoring an unlink that fails
Finally ==
    LET stuck == { f \in { tmp_input, tmp_output } : f[2] \in unlink_fails }
    IN /\ tmp_present' = (tmp_present \ { tmp_input, tmp_output }) \cup stuck
       /\ tmp_unlinked' = tmp_unlinked \cup { tmp_input, tmp_output }

\* run_sweep after measure_frequency returned: append the record and step
\* to the next frequency
AppendRecord(db_values) ==
    /\ results' = Append(results,
                         [frequency |-> frequency, db_values |-> db_values])
    /\ IF steps_per_oct = 0
       THEN /\ pc' = "exited"
            /\ exit_cause' = "ZeroDivisionError"
            /\ UNCHANGED frequency
       ELSE /\ frequency' = FMul(frequency, Pow2Root(steps_per_oct))
            /\ pc' = "loop"
            /\ UNCHANGED exit_cause

\* the failure record of run_sweep: [-200] * self.num_outputs
FailedDb_single == << Sentinel >>

FailedDb == [i \in 1 .. num_outputs |-> Sentinel]

\* measure_frequency returns None
ReturnNone ==
    /\ Finally
    /\ AppendRecord(FailedDb)
    /\ rms_values' = << >>
    /\ UNCHANGED << adaptive_duration, m_trim_start, m_trim_len >>

\* an exception no except clause of measure_frequency names leaves
\* measure_frequency, run_sweep and run
Propagate(cause) ==
    /\ Finally
    /\ pc' = "exited"
    /\ exit_cause' = cause
    /\ rms_values' = << >>
    /\ UNCHANGED << results, frequency, adaptive_duration, m_trim_start,
                    m_trim_len >>

\* sox -n tmp_input synth ... trim ...
Generate ==
    /\ pc = "generate"
    /\ \E outcome \in ToolOutcomes :
         /\ calls' = Append(calls,
                Call("sox synth", 0, outcome,
                     << adaptive_duration, frequency, num_inputs,
                        m_trim_start, m_trim_len >>, << >>))
         /\ CASE outcome = "ok" ->
                   /\ pc' = "process"
                   /\ UNCHANGED << exit_cause, results, frequency, locals,
                                   tmpfiles >>
              [] outcome = "nonzero" -> ReturnNone
              [] outcome = "OSError" -> Propagate("OSError:tool")
    /\ UNCHANGED << env, config, descriptor, outputs >>

\* what follows the processor's return in both branches
AfterProcess_unchecked(outcome) ==
    CASE outcome \in { "ok", "nonzero" } ->
            /\ pc' = "stat"
            /\ UNCHANGED << exit_cause, results, frequency, locals,
                            tmpfiles >>
      [] outcome = "OSError" -> Propagate("OSError:tool")

AfterProcess(outcome) ==
    CASE outcome = "ok" ->
            /\ pc' = "stat"
            /\ UNCHANGED << exit_cause, results, frequency, locals,
                            tmpfiles >>
      [] outcome = "nonzero" -> ReturnNone
      [] outcome = "OSError" -> Propagate("OSError:tool")

\* if self.plugin_label == 'riaa': ./riaa_process tmp_input tmp_output
ProcessNative ==
    /\ pc = "process"
    /\ plugin_label = "riaa"
    /\ \E outcome \in ToolOutcomes :
         /\ calls' = Append(calls,
                            Call("riaa_process", 0, outcome, << >>, << >>))
         /\ AfterProcess(outcome)
    /\ UNCHANGED << env, config, descriptor, outputs >>

\* else: sox tmp_input tmp_output ladspa plugin_path plugin_label
ProcessGeneric ==
    /\ pc = "process"
    /\ plugin_label # "riaa"
    /\ \E outcome \in ToolOutcomes :
         /\ calls' = Append(calls,
                            Call("sox ladspa", 0, outcome, << >>, << >>))
         /\ AfterProcess(outcome)
    /\ UNCHANGED << env, config, descriptor, outputs >>

\* one round of "for ch in range(self.num_outputs)": sox tmp_file -n remix
\* ch+1 stat, whose exit status is not looked at, and the parsing of its
\* report
StatChannel ==
    /\ pc = "stat"
    /\ Len(rms_values) < num_outputs
    /\ LET ch == Len(rms_values) IN
       \/ /\ calls' = Append(calls,
                 Call("sox stat", ch, "OSError", << ch + 1 >>, << >>))
          /\ Propagate("OSError:tool")
       \/ \E output \in StatReports :
            /\ calls' = Append(calls,
                   Call("sox stat", ch, "returned", << ch + 1 >>, output))
            /\ LET rms == ParseRms(output) IN
               CASE rms.status = "float" ->
                       /\ rms_values' = Append(rms_values, rms.val)
                       /\ UNCHANGED << pc, exit_cause, results, frequency,
                                       adaptive_duration, m_trim_start,
                                       m_trim_len, tmpfiles >>
                 [] rms.status = "None" ->
                       /\ rms_values' = Append(rms_values, 0)
                       /\ UNCHANGED << pc, exit_cause, results, frequency,
                                       adaptive_duration, m_trim_start,
                                       m_trim_len, tmpfiles >>
                 [] rms.status = "ValueError" -> ReturnNone
    /\ UNCHANGED << env, config, descriptor, outputs >>

\* return rms_values, and run_sweep's conversion of each value to dB
ReturnRms ==
    /\ pc = "stat"
    /\ Len(rms_values) = num_outputs
    /\ Finally
    /\ AppendRecord([i \in 1 .. Len(rms_values) |-> rms_to_db(rms_values[i])])
    /\ rms_values' = << >>
    /\ UNCHANGED << adaptive_duration, m_trim_start, m_trim_len, calls,
                    env, config, descriptor, outputs >>

\* ------------------------------------------------------------------------
\* write_results and plot_results
\* ------------------------------------------------------------------------
FormatRow(r) ==
    [freq |-> Fmt3(r.frequency),
     db |-> [j \in 1 .. Len(r.db_values) |-> Fmt2(r.db_values[j])]]

WriteResults ==
    /\ pc = "write"
    /\ rows' = [i \in 1 .. Len(results) |-> FormatRow(results[i])]
    /\ table_written' = TRUE
    /\ pc' = "plot"
    /\ UNCHANGED << exit_cause, env, config, descriptor, results,
                    frequency, locals, tmpfiles, calls, plot_saved >>

PlotResults ==
    /\ pc = "plot"
    /\ plot_saved' = HAS_MATPLOTLIB
    /\ pc' = "done"
    /\ UNCHANGED << exit_cause, env, config, descriptor, results,
                    frequency, locals, tmpfiles, calls, rows, table_written >>

Next ==
    \/ ParseArgs
    \/ AnalyzePlugin
    \/ BeginSweep
    \/ EnterMeasure
    \/ ReturnResults
    \/ CreateTmpInput
    \/ CreateTmpOutput
    \/ Generate
    \/ ProcessNative
    \/ ProcessGeneric
    \/ StatChannel
    \/ ReturnRms
    \/ WriteResults
    \/ PlotResults

Spec == Init /\ [][Next]_vars

TypeOK ==
    /\ pc \in { "start", "parsed", "analyzed", "loop", "tmp_input",
                "tmp_output", "generate", "process", "stat", "write",
                "plot", "done", "exited" }
    /\ Len(results) <= MaxIter

\* ------------------------------------------------------------------------
\* Properties
\* ------------------------------------------------------------------------
MeasurePcs == { "tmp_input", "tmp_output", "generate", "process", "stat" }

\* the command line is one the configuration surface means to accept
ValidConfig ==
    pc # "start" /\ f_min > 0 /\ steps_per_oct >= 1 /\ duration > 0

\* run_sweep has returned its results
SweepReturned == pc \in { "write", "plot", "done" }

AllSentinel(db) == \A j \in DOMAIN db : db[j] = Sentinel

\* the lines of a report that carry an RMS amplitude field
RmsFields(report) ==
    { k \in DOMAIN report :
        report[k].hasRMS /\ report[k].hasAmp /\ report[k].matched }

NoRmsField(report) == RmsFields(report) = {}

FirstRmsField(report) ==
    report[CHOOSE k \in RmsFields(report) :
                \A m \in RmsFields(report) : k <= m]

Unparsable(report) ==
    ~NoRmsField(report) /\ ~FirstRmsField(report).isFloat

StatCalls(n) ==
    { i \in DOMAIN calls : calls[i].n = n /\ calls[i].tool = "sox stat"
                           /\ calls[i].outcome = "returned" }

ToolFailed(c) ==
    \/ c.outcome \in { "nonzero", "OSError" }
    \/ c.tool = "sox stat" /\ c.outcome = "returned" /\ Unparsable(c.output)

\* C1: whenever an external tool of the measurement of a ladder frequency
\* fails (generator, processor or statistics extractor error, unparsable
\* amplitude), the sweep does not abort and holds a record for that
\* frequency whose num_outputs values are all -200.
C1_SweepResilience ==
    \A i \in DOMAIN calls :
        (ValidConfig /\ ToolFailed(calls[i])) =>
            /\ exit_cause # "OSError:tool"
            /\ Len(results) >= calls[i].n
            /\ results[calls[i].n].db_values
                   = [j \in 1 .. num_outputs |-> Sentinel]

\* C2: once run_sweep has returned, the frequencies of its records are the
\* frequency ladder: none when f_min > f_max, else starting at f_min, each
\* next one the previous one times 2 ** (1 / steps_per_oct) and greater than
\* it, all of them <= f_max, ending with the last one whose successor
\* exceeds f_max; the rows written are these records in the same order,
\* each frequency at the written precision.
C2_LadderIsSwept ==
    SweepReturned =>
        /\ (f_min > f_max) => results = << >>
        /\ (f_min <= f_max) =>
               /\ Len(results) >= 1
               /\ results[1].frequency = f_min
               /\ FMul(results[Len(results)].frequency,
                       Pow2Root(steps_per_oct)) > f_max
        /\ \A i \in DOMAIN results : results[i].frequency <= f_max
        /\ \A i \in 1 .. Len(results) - 1 :
               /\ results[i + 1].frequency
                      = FMul(results[i].frequency, Pow2Root(steps_per_oct))
               /\ results[i + 1].frequency > results[i].frequency
        /\ table_written =>
               /\ Len(rows) = Len(results)
               /\ \A i \in DOMAIN rows :
                      /\ rows[i].freq * 10 - results[i].frequency <= 5
                      /\ results[i].frequency - rows[i].freq * 10 <= 5

C2_Witness ==
    /\ pc = "done"
    /\ Len(results) = 2
    /\ Len(rows) = 2
    /\ results[1].frequency = f_min
    /\ results[2].frequency = f_max

\* C3: every record of run_sweep has exactly num_outputs channel values,
\* one per output channel index, after a failed measurement as after a
\* successful one.
C3_RecordWidth ==
    \A i \in DOMAIN results :
        DOMAIN results[i].db_values = 1 .. num_outputs

C3_Witness ==
    /\ num_outputs = 2
    /\ Len(results) = 2
    /\ AllSentinel(results[1].db_values)
    /\ \E c \in DOMAIN calls : calls[c].n = 1 /\ calls[c].outcome = "nonzero"
    /\ ~AllSentinel(results[2].db_values)

\* C4: with steps_per_oct <= 0 the configuration is rejected before the
\* sweep starts: no temporary file is created, no external tool of the
\* measurement pipeline is invoked, and run_sweep never returns a ladder.
C4_StepsRejected ==
    (pc # "start" /\ steps_per_oct <= 0) =>
        /\ calls = << >>
        /\ tmp_present = {}
        /\ ~SweepReturned

\* C5: outside the part of measure_frequency that works on the temporary
\* files, every temporary file still on disk is one whose deletion was
\* attempted: each exit path of measure_frequency, exceptions included,
\* unlinks the files the call created.
C5_TempFilesReleased ==
    (ValidConfig /\ pc \notin { "tmp_output", "generate", "process", "stat" })
        => tmp_present \subseteq tmp_unlinked

\* C6 as claimed: in a finished measurement, a channel whose report has no
\* RMS amplitude field or an unparsable one has the value -200, and every
\* other channel has the dB value of its own parsed RMS.
C6_UnparsableIsZero ==
    \A n \in DOMAIN results : \A i \in StatCalls(n) :
        ValidConfig =>
        IF NoRmsField(calls[i].output) \/ Unparsable(calls[i].output)
        THEN results[n].db_values[calls[i].ch + 1] = Sentinel
        ELSE results[n].db_values[calls[i].ch + 1]
                 = rms_to_db(FirstRmsField(calls[i].output).val)

\* C6 amended: in a finished measurement none of whose reports carries an
\* unparsable RMS amplitude, a channel whose report has no RMS amplitude
\* field has the value -200 and every other channel the dB value of its own
\* parsed RMS, one value per channel; a finished measurement one of whose
\* reports carries an unparsable RMS amplitude has -200 on every channel.
C6_MissingRmsIsZero ==
    \A n \in DOMAIN results :
        IF \E i \in StatCalls(n) : Unparsable(calls[i].output)
        THEN AllSentinel(results[n].db_values)
        ELSE \A i \in StatCalls(n) :
                 IF NoRmsField(calls[i].output)
                 THEN results[n].db_values[calls[i].ch + 1] = Sentinel
                 ELSE results[n].db_values[calls[i].ch + 1]
                          = rms_to_db(FirstRmsField(calls[i].output).val)

C6_Witness ==
    /\ num_outputs = 2
    /\ Len(results) >= 1
    /\ \E i, k \in StatCalls(1) :
         /\ calls[i].ch = 0
         /\ NoRmsField(calls[i].output)
         /\ calls[k].ch = 1
         /\ ~NoRmsField(calls[k].output)
         /\ ~Unparsable(calls[k].output)
    /\ results[1].db_values[1] = Sentinel
    /\ results[1].db_values[2] > Sentinel

\* C7: the window of every signal generator call at a frequency > 0 is the
\* Window Planner's: adaptiveDuration = min(max(100 * (1 / frequency), 1.0),
\* 10.0), which is 1.0 from 100 Hz on and 10.0 up to 10 Hz, and the trim
\* window is the configuration's trim_start and trim_len times
\* adaptiveDuration / duration.
C7_WindowIsPlanned ==
    \A i \in DOMAIN calls :
        (calls[i].tool = "sox synth" /\ calls[i].args[2] > 0) =>
            LET ad == calls[i].args[1]
                f == calls[i].args[2]
            IN /\ ad = FMin(FMax(100 * FDiv(Scale, f), Scale), 10 * Scale)
               /\ Scale <= ad
               /\ ad <= 10 * Scale
               /\ (f >= Hz(100)) => ad = Scale
               /\ (f <= Hz(10)) => ad = 10 * Scale
               /\ calls[i].args[4] = FDiv(FMul(trim_start, ad), duration)
               /\ calls[i].args[5] = FDiv(FMul(trim_len, ad), duration)

C7_Witness ==
    \E i \in DOMAIN calls :
        /\ calls[i].tool = "sox synth"
        /\ calls[i].args[2] = Hz(40)
        /\ calls[i].args[1] = 25000
        /\ duration = 5000
        /\ calls[i].args[4] = Scale
        /\ calls[i].args[5] = 3 * Scale

\* C8: in a run with --no-plot no plot is saved.
C8_NoPlotRespected == (ValidConfig /\ no_plot) => ~plot_saved

\* C9: the tools of one measurement are invoked in a fixed order with
\* short-circuit: the generator first; then, only after the generator
\* succeeded, one processor, riaa_process exactly when the label is 'riaa';
\* then, only after the processor succeeded, the statistics extractor for
\* channel 0, 1, ... below num_outputs, each only after the report of the
\* channel before it was parsed.  A measurement whose generator or processor
\* failed is never a success, and no tool of a measurement is invoked
\* before the measurement before it has finished.
C9_ToolOrder ==
    \A i \in DOMAIN calls :
        LET c == calls[i] IN
        /\ c.n <= Len(results) + 1
        /\ (c.n = Len(results) + 1) => (pc \in MeasurePcs \/ pc = "exited")
        /\ CASE c.tool = "sox synth" ->
                   /\ c.args[2] = IF c.n <= Len(results)
                                  THEN results[c.n].frequency ELSE frequency
                   /\ (i = 1 /\ c.n = 1) \/ (i > 1 /\ calls[i - 1].n = c.n - 1)
             [] c.tool \in { "riaa_process", "sox ladspa" } ->
                   /\ i > 1
                   /\ calls[i - 1].n = c.n
                   /\ calls[i - 1].tool = "sox synth"
                   /\ calls[i - 1].outcome = "ok"
                   /\ (c.tool = "riaa_process") <=> (plugin_label = "riaa")
             [] c.tool = "sox stat" ->
                   /\ i > 1
                   /\ calls[i - 1].n = c.n
                   /\ c.ch < num_outputs
                   /\ c.args = << c.ch + 1 >>
                   /\ IF c.ch = 0
                      THEN /\ calls[i - 1].tool
                                  \in { "riaa_process", "sox ladspa" }
                           /\ calls[i - 1].outcome = "ok"
                      ELSE /\ calls[i - 1].tool = "sox stat"
                           /\ calls[i - 1].ch = c.ch - 1
                           /\ calls[i - 1].outcome = "returned"
                           /\ ~Unparsable(calls[i - 1].output)
        /\ (c.tool # "sox stat" /\ c.outcome # "ok") =>
               /\ \A k \in DOMAIN calls : k > i => calls[k].n > c.n
               /\ c.n <= Len(results) =>
                      AllSentinel(results[c.n].db_values)
               /\ c.n > Len(results) => pc = "exited"

C9_Witness ==
    /\ Len(results) = 2
    /\ ~AllSentinel(results[1].db_values)
    /\ AllSentinel(results[2].db_values)
    /\ Len(calls) = 6
    /\ calls[4].tool = "sox stat" /\ calls[4].ch = 1
    /\ calls[6].tool = "sox ladspa" /\ calls[6].n = 2
    /\ calls[6].outcome = "nonzero"

\* C10: with f_min > 0 and steps_per_oct >= 1 the current frequency
\* strictly increases on every iteration of the sweep, which is what makes
\* the sweep end after as many measurements as the ladder has frequencies.
C10_FrequencyIncreases ==
    (pc # "start" /\ f_min > 0 /\ steps_per_oct >= 1) =>
        \A i \in DOMAIN results :
            results[i].frequency
                < (IF i < Len(results) THEN results[i + 1].frequency
                   ELSE frequency)

====
